---- MODULE Spec2Model ----
(***************************************************************************)
(* A model of src/load_balancer.py: the DynamicLoadBalancer, its           *)
(* ProcessorQueues, the threads that call submit_task, the monitoring      *)
(* thread (balance_load) and the execution threads started by add_task.    *)
(*                                                                         *)
(* Numbers.  Loads, metrics and weights are Python floats.  The model      *)
(* keeps them as integers: a capacity is a fraction num/den (Capacities)   *)
(* for which len(tasks) * 100 / capacity is a whole number, cpu_usage is a *)
(* multiple of 20 and temperature a multiple of 10.  A placement weight w  *)
(* is kept as w * 200000 (see Weight); on the values the model reaches the *)
(* order of these integers is the order of the floats the code compares.   *)
(* avg_execution_time is kept as a fraction in lowest terms (see Divide).  *)
(*                                                                         *)
(* Steps.  The threads are switched between any two lines, and inside a    *)
(* line between two reads or a read and a write of a field, and readers    *)
(* take no lock.  So every read of a field by a thread that does not hold  *)
(* the lock is a step of its own (line 132's read and store of             *)
(* tasks_submitted, lines 147, 150 and 151, each read of lines 162 to 167, *)
(* each call of the key of sorted() in line 177, the two reads of line     *)
(* 181, line 182), and so is every line that writes a field such a thread  *)
(* reads: in add_task the append, update_load, the lines of update_metrics *)
(* and each of the two counters; in _execute_task the removal, the         *)
(* counter, update_load and the lines of update_metrics; in get_task the   *)
(* popleft and update_load.  Taking the lock is a step with the statement  *)
(* that follows it, releasing it a step with the line before it (no line   *)
(* reads the lock).  Lines 99-101 write load_history and line 47 writes    *)
(* memory_usage, which no line reads: they are one step with line 97 and   *)
(* with line 48.  print calls change nothing.                              *)
(***************************************************************************)
EXTENDS Integers, Sequences, FiniteSets, Bags, TLC

\* ------------------------------------------------------------------ bounds
\* submit_task is called at most MaxTasks times.
MaxTasks == 3
\* The monitoring thread starts a tick only while fewer than MaxMigrations
\* tasks have been moved: this bounds the counters and the execution threads.
MaxMigrations == 2
\* Where the statistics are not kept (see InitWith), the monitoring thread
\* starts a tick only while the execution threads asleep leave room in MaxThreads.
MaxThreads == 4
CompletedBefore == 49
MaxReads == 2

\* ------------------------------------------------------- program constants
\* self.load_threshold = 70.0
load_threshold == 70
\* update_load keeps the last 100 entries of load_history
HistoryLimit == 100

\* The threads of the model.
Submitters == {"s1", "s2"}
Monitors == {"m1", "m2"}
Readers == {"r1"}

\* DynamicLoadBalancer(num_processors): the pool sizes the model constructs.
PoolSizes == {0, 2}
\* psutil.cpu_freq().current or 100.0: the capacities the model constructs, as
\* fractions << num, den >>.  1.0 gives a load of 100 for each pending task,
\* 10/7 a load of 70.0 (the load_threshold) and 25/18 a load of 72.0; with
\* these the quotients of line 97 are whole numbers in floating point too.
Capacities == {<< 1, 1 >>, << 10, 7 >>, << 25, 18 >>}
\* random.uniform(20, 80): the samples the model draws.
MemorySamples == {50}
\* execution_time and priority arguments of submit_task.
ExecTimes == {1}
Priorities == {1}
\* task_type arguments of submit_task; "unknown" is not in the catalog.
TypeArgs == {"balanced", "unknown"}

\* self.task_types: the names of the catalog.
task_types == {"compute_intensive", "memory_intensive", "io_intensive", "balanced"}

\* specializations of __init__, indexed from 1.
specializations ==
    << {"compute_intensive"}, {"memory_intensive"}, {"io_intensive"}, {} >>

VARIABLES
    processor_queues,   \* self.processor_queues: a sequence of ProcessorQueue
    tasks_submitted,    \* self.tasks_submitted
    capacity,           \* what get_processor_capacity returns
    config,             \* the run the model explores (see InitWith); never changes
    submit,             \* the frame of each thread calling submit_task
    monitor,            \* the frame of each monitoring thread (balance_load)
    threads,            \* bag of execution threads asleep in time.sleep
    executing,          \* execution threads inside _execute_task's with-block
    calls,              \* history: number of submit_task calls so far
    accepted,           \* history: ids of the tasks submit_task has admitted
    resolutions,        \* history: id -> the processors that counted the task resolved
    migrations,         \* history: tasks the monitoring threads have re-admitted
    reader,             \* the frame of each thread calling get_statistics
    version             \* history: the steps that have changed the balancer

vars == << processor_queues, tasks_submitted, capacity, config, submit, monitor,
           threads, executing, calls, accepted, resolutions, migrations, reader,
           version >>

\* Task(id, priority, execution_time, arrival_time, task_type, status).
\* arrival_time (a clock reading) and status (never changed from "pending")
\* are left out; ids are distinct, so two tasks are equal only when they are
\* the same task, as with distinct arrival times.
Task(id, priority, execution_time, task_type) ==
    [id |-> id, priority |-> priority, execution_time |-> execution_time,
     task_type |-> task_type]

\* Python's None, when a task is expected.
None == Task(0, 0, 0, "None")

\* ProcessorMetrics.__init__
ProcessorMetrics ==
    [cpu_usage |-> 0, memory_usage |-> 0, io_usage |-> 0, temperature |-> 0,
     power_consumption |-> 0]

\* ProcessorQueue.__init__
ProcessorQueue(processor_id, specialization) ==
    [processor_id |-> processor_id, tasks |-> << >>, lock |-> FALSE, load |-> 0,
     total_tasks_processed |-> 0, total_execution_time |-> 0,
     specialization |-> specialization, metrics |-> ProcessorMetrics,
     failed_tasks |-> 0, successful_tasks |-> 0, load_history |-> << >>]

Procs == 1..Len(processor_queues)

Min(a, b) == IF a < b THEN a ELSE b

\* -------------------------------------------------- ProcessorQueue methods
\* get_processor_capacity: psutil.cpu_freq().current or 100.0
get_processor_capacity == capacity

\* x / self.get_processor_capacity()
PerCapacity(x) == (x * get_processor_capacity[2]) \div get_processor_capacity[1]

\* update_load, with a stale load and no history entry
UpdateLoadStale(q) == q

\* update_load: recompute load, append it to load_history, keep the last 100
update_load(q) ==
    LET load == PerCapacity(Len(q.tasks) * 100)
        history == Append(q.load_history, load)
    IN  [q EXCEPT !.load = load,
                  !.load_history = IF Len(history) > HistoryLimit
                                   THEN Tail(history) ELSE history]

\* update_metrics, line 46
update_metrics_cpu(q) ==
    [q EXCEPT !.metrics.cpu_usage = Min(100, Len(q.tasks) * 20)]

\* update_metrics, lines 47-48; memory is the sample random.uniform returned
update_metrics_temperature(q, memory) ==
    [q EXCEPT !.metrics.memory_usage = memory,
              !.metrics.temperature = 40 + (q.metrics.cpu_usage \div 2)]

\* update_metrics, line 49
update_metrics_power(q) ==
    [q EXCEPT !.metrics.power_consumption = q.metrics.cpu_usage * 2]

\* update_metrics run by itself, lines 46-49
update_metrics(q, memory) ==
    update_metrics_power(update_metrics_temperature(update_metrics_cpu(q), memory))

\* add_task that appends without taking the lock
add_task_unlocked(q, task) ==
    [q EXCEPT !.tasks = Append(@, task)]

\* add_task, lines 52-53: take the lock and append the task
add_task_append(q, task) ==
    [q EXCEPT !.lock = TRUE, !.tasks = Append(@, task)]

\* _simulate_task_execution, line 63
simulate_task_execution_count(q) ==
    [q EXCEPT !.total_tasks_processed = @ + 1]

\* _simulate_task_execution, line 64
simulate_task_execution_time(q, task) ==
    [q EXCEPT !.total_execution_time = @ + task.execution_time]

\* add_task, the end: line 64, line 65 (the thread it starts is in threads)
\* and the release of the lock
add_task_finish(q, task) ==
    [simulate_task_execution_time(q, task) EXCEPT !.lock = FALSE]

\* line 74 without the test: the task is counted whether or not it is queued
ContainsAlways(tasks, task) == TRUE

\* task in self.tasks
Contains(tasks, task) == \E i \in 1..Len(tasks) : tasks[i] = task

\* deque.remove(task): drop the first occurrence
RECURSIVE Remove(_, _)
Remove(tasks, task) ==
    IF tasks = << >> THEN << >>
    ELSE IF Head(tasks) = task THEN Tail(tasks)
    ELSE << Head(tasks) >> \o Remove(Tail(tasks), task)

\* random.random() < success_chance: 0.95, or 0.95 + 0.05 = 1.0 for a task of
\* the processor's specialization, which random.random() never reaches
Outcomes(q, task) ==
    IF task.task_type \in q.specialization THEN {TRUE} ELSE {TRUE, FALSE}

\* _execute_task, lines 73-75 when the task is in the queue: take the lock,
\* remove the task
execute_task_remove(q, task) ==
    [q EXCEPT !.lock = TRUE, !.tasks = Remove(@, task)]

\* _execute_task, lines 76-81: count the task
execute_task_count(q, success) ==
    [q EXCEPT !.successful_tasks = IF success THEN @ + 1 ELSE @,
              !.failed_tasks = IF success THEN @ ELSE @ + 1]

\* _execute_task, the end: line 49 of update_metrics and the release
execute_task_finish(q) ==
    [update_metrics_power(q) EXCEPT !.lock = FALSE]

\* get_task that returns the head and leaves it in the queue
get_task_peek(q) == [q EXCEPT !.lock = TRUE]

\* get_task that takes the task admitted last: pop instead of popleft
get_task_pop(q) == [q EXCEPT !.lock = TRUE, !.tasks = SubSeq(@, 1, Len(@) - 1)]

\* get_task, lines 89-91 on a non-empty queue: take the lock, popleft
get_task_popleft(q) == [q EXCEPT !.lock = TRUE, !.tasks = Tail(@)]

\* get_task that returns with the lock still held
get_task_keep_lock(q) == update_load(q)

\* get_task, lines 92-93: update_load, release (the task is returned)
get_task_finish(q) == [update_load(q) EXCEPT !.lock = FALSE]

\* ---------------------------------------------- DynamicLoadBalancer methods
\* DynamicLoadBalancer.__init__, lines 115-118
NewProcessorQueues(num_processors) ==
    [i \in 1..num_processors |->
        ProcessorQueue(i - 1, specializations[((i - 1) % Len(specializations)) + 1])]

\* _find_optimal_processor, lines 147-151: the weight of processor p for the
\* task, times 200000:
\*   load * (0.7 or 1) * (1 + cpu_usage / 200) * (1 + (temperature - 40) / 100)
\* = load * (7 or 10) * (200 + cpu_usage) * (60 + temperature) / 200000
\* lines 147-149
weight_load(p, task) ==
    p.load * (IF task.task_type \in p.specialization THEN 7 ELSE 10)

\* line 150
weight_cpu(weight, p) == weight * (200 + p.metrics.cpu_usage)

\* line 151
weight_temperature(weight, p) == weight * (60 + p.metrics.temperature)

\* lines 147-151 with no other thread between them
Weight(p, task) == weight_temperature(weight_cpu(weight_load(p, task), p), p)

\* a scan that replaces the item kept by one with an equal key
RECURSIVE MinScanLast(_, _, _)
MinScanLast(weighted_loads, k, best) ==
    IF k > Len(weighted_loads) THEN best
    ELSE MinScanLast(weighted_loads, k + 1,
                     IF weighted_loads[k][2] <= best[2] THEN weighted_loads[k] ELSE best)

\* min(weighted_loads, key=...): the scan of Python's min, which keeps the
\* first item and replaces it only by one with a strictly smaller key
RECURSIVE MinScan(_, _, _)
MinScan(weighted_loads, k, best) ==
    IF k > Len(weighted_loads) THEN best
    ELSE MinScan(weighted_loads, k + 1,
                 IF weighted_loads[k][2] < best[2] THEN weighted_loads[k] ELSE best)

\* line 153: min(weighted_loads, key=lambda x: x[1])[0], on a non-empty list
MinWeighted(weighted_loads) == MinScan(weighted_loads, 2, weighted_loads[1])[1]

\* _find_optimal_processor run on one snapshot of the pool
RECURSIVE WeightedLoads(_, _, _)
WeightedLoads(queues, task, k) ==
    IF k > Len(queues) THEN << >>
    ELSE << << k, Weight(queues[k], task) >> >> \o WeightedLoads(queues, task, k + 1)

find_optimal_processor(queues, task) == MinWeighted(WeightedLoads(queues, task, 1))

\* sorted(self.processor_queues, key=lambda x: x.load) on the keys it has
\* read, keys[i] for processor i: a stable sort, here as the insertion of each
\* processor, in list order, after the processors whose key is not greater
RECURSIVE InsertByLoad(_, _, _)
InsertByLoad(sorted, keys, i) ==
    IF sorted = << >> THEN << i >>
    ELSE IF keys[i] < keys[Head(sorted)] THEN << i >> \o sorted
    ELSE << Head(sorted) >> \o InsertByLoad(Tail(sorted), keys, i)

RECURSIVE SortedByLoad(_, _)
SortedByLoad(keys, n) ==
    IF n = 0 THEN << >> ELSE InsertByLoad(SortedByLoad(keys, n - 1), keys, n)

\* line 181 with >= for >
SkewedAtThreshold(most_load, least_load) == most_load - least_load >= load_threshold

\* line 181: most_loaded.load - least_loaded.load > self.load_threshold, on
\* the two loads it has read
Skewed(most_load, least_load) == most_load - least_load > load_threshold

\* line 182: len(most_loaded.tasks) // 2
TasksToMove(most_loaded) == Len(most_loaded.tasks) \div 2

\* ------------------------------------------------------------------ frames
\* A thread outside submit_task: the locals of the call are gone; result is
\* what its last call returned or raised.
IdleSubmit ==
    [pc |-> "idle", task_id |-> 0, priority |-> 0, execution_time |-> 0,
     task_type |-> "None", read |-> 0, task |-> None, i |-> 0, weight |-> 0,
     weighted_loads |-> << >>, target |-> 0,
     result |-> "none"]

\* A monitoring thread that start_monitoring has not started yet; with pc
\* "sleep", one in balance_load's time.sleep: the locals of
\* _perform_load_balancing are gone.  pending, moved and quiet are history.
NoMonitor ==
    [pc |-> "unstarted", keys |-> << >>, processors |-> << >>, most_loaded |-> 0,
     least_loaded |-> 0, most_load |-> 0, triggered |-> FALSE, pending |-> 0, tasks_to_move |-> 0,
     i |-> 0, task |-> None, moved |-> 0, quiet |-> TRUE]

\* The places of a thread inside the with-block of add_task, after the append.
InAddTask ==
    {"add_load", "add_cpu", "add_temperature", "add_power", "add_count", "add_finish"}

\* The monitoring threads inside _perform_load_balancing.
InTick(m) == monitor[m].pc \notin {"unstarted", "sleep", "dead"}

\* Another thread has changed a queue: the ticks in progress are not quiet.
Disturbed ==
    [m \in Monitors |->
        IF InTick(m) THEN [monitor[m] EXCEPT !.quiet = FALSE] ELSE monitor[m]]

RECURSIVE GCD(_, _)
GCD(a, b) == IF b = 0 THEN a ELSE GCD(b, a % b)

\* The float a / b for b > 0, kept as the fraction << numerator, denominator >>
\* in lowest terms.
Divide(a, b) == << a \div GCD(a, b), b \div GCD(a, b) >>

\* The float 0 (line 164's else) as such a fraction.
Zero == << 0, 1 >>

\* An entry of which no line has been evaluated yet.
NoEntry ==
    [id |-> 0, specialization |-> {}, tasks_processed |-> 0, successful_tasks |-> 0,
     avg_execution_time |-> Zero, current_load |-> 0, temperature |-> 0,
     power_consumption |-> 0]

\* The reads of a processor's fields in lines 160-167, in the order Python
\* evaluates them.  Line 164 reads total_tasks_processed for its test and,
\* when it is positive, total_execution_time and total_tasks_processed again.
EntryReads ==
    << "tasks_processed", "successful_tasks", "avg_test", "avg_time", "avg_count",
       "current_load", "temperature", "power_consumption" >>

\* get_statistics, lines 160-167: the entry of processor p after the read at
\* `at` (id and specialization, which never change, with the first)
statistics_entry(entry, p, at) ==
    CASE at = "tasks_processed" ->
            [entry EXCEPT !.id = p.processor_id, !.specialization = p.specialization,
                          !.tasks_processed = p.total_tasks_processed]
      [] at = "successful_tasks" -> [entry EXCEPT !.successful_tasks = p.successful_tasks]
      [] at = "avg_test" -> [entry EXCEPT !.avg_execution_time = Zero]
      [] at = "avg_time" ->
            [entry EXCEPT !.avg_execution_time = << p.total_execution_time, 1 >>]
      [] at = "avg_count" ->
            [entry EXCEPT !.avg_execution_time = Divide(@[1], p.total_tasks_processed)]
      [] at = "current_load" -> [entry EXCEPT !.current_load = p.load]
      [] at = "temperature" -> [entry EXCEPT !.temperature = p.metrics.temperature]
      [] at = "power_consumption" ->
            [entry EXCEPT !.power_consumption = p.metrics.power_consumption]

\* The read that follows the read at `at`: line 164's test decides whether
\* the quotient is evaluated.
NextRead(p, at) ==
    IF at = "avg_test" /\ ~(p.total_tasks_processed > 0) THEN "current_load"
    ELSE EntryReads[(CHOOSE k \in 1..Len(EntryReads) : EntryReads[k] = at) + 1]

\* No dictionary: get_statistics has not returned yet.
NoStatistics == [total_tasks |-> -1, processors |-> << >>]

\* A thread outside get_statistics.  result is the dictionary its last call
\* returned, without "runtime" (time.time() - self.start_time, which differs
\* from call to call), previous the one of the call before.  base, quiet and
\* reads are history: the version of the balancer when the call began,
\* whether it was the same at every step of the call, and the number of calls;
\* base and quiet are kept in the runs whose threads call more than once.
IdleReader ==
    [pc |-> "idle", i |-> 0, at |-> "none", entry |-> NoEntry, total_tasks |-> 0,
     processors |-> << >>, result |-> NoStatistics, previous |-> NoStatistics,
     base |-> 0, previous_base |-> 0,
     quiet |-> FALSE, previous_quiet |-> FALSE, reads |-> 0]

\* The monitoring thread m has changed a queue: the ticks in progress in the
\* other monitoring threads are not quiet.
DisturbedBy(m) ==
    [o \in Monitors |->
        IF o # m /\ InTick(o) THEN [monitor[o] EXCEPT !.quiet = FALSE] ELSE monitor[o]]

\* add_task run by itself, lines 52-65
add_task(q, task, memory) ==
    add_task_finish(
        simulate_task_execution_count(
            update_metrics(update_load(add_task_append(q, task)), memory)),
        task)

\* The pool after the calls submit_task(id, 1, 1, "compute_intensive") for id
\* from first to last, one after the other, before any of their execution
\* threads wakes (lines 140-141 for each).
RECURSIVE SubmittedRun(_, _, _)
SubmittedRun(queues, first, last) ==
    IF first > last \/ queues = << >> THEN queues
    ELSE LET task == Task(first, CHOOSE priority \in Priorities : TRUE,
                          CHOOSE t \in ExecTimes : TRUE, "compute_intensive")
             target == find_optimal_processor(queues, task)
         IN  SubmittedRun([queues EXCEPT ![target] =
                              add_task(@, task, CHOOSE memory \in MemorySamples : TRUE)],
                          first + 1, last)

\* The execution threads of the pending tasks, asleep.
SleepingThreads(queues) ==
    SetToBag(UNION {{[task |-> queues[p].tasks[i], proc |-> p] :
                        i \in 1..Len(queues[p].tasks)} : p \in 1..Len(queues)})

\* The queue without the fields only get_statistics reads and failed_tasks,
\* or with them.
Hidden(q, statistics) ==
    IF statistics THEN q
    ELSE [q EXCEPT !.total_tasks_processed = 0, !.total_execution_time = 0,
                   !.successful_tasks = 0, !.failed_tasks = 0,
                   !.load_history = << >>]

\* The pool after `completed` calls submit_task(id, 1, 1, "compute_intensive")
\* on a new balancer, each task resolved before the next call: every task is
\* placed on the first processor (all weights are 0 and min keeps the first),
\* whose specialization makes it succeed.  Each call appends the load with
\* the task and, at its resolution, the load without it.
CompletedRun(queues, completed) ==
    IF completed = 0 \/ queues = << >> THEN queues
    ELSE [queues EXCEPT ![1] =
            [update_metrics(@, CHOOSE memory \in MemorySamples : TRUE) EXCEPT
                !.total_tasks_processed = completed,
                !.total_execution_time = completed * (CHOOSE t \in ExecTimes : TRUE),
                !.successful_tasks = completed,
                !.load_history =
                    [k \in 1..(2 * completed) |->
                        IF k % 2 = 1 THEN PerCapacity(100) ELSE 0]]]

\* The model explores one run of the program per initial state.  config says
\* which: submitters, the threads that call submit_task; monitors, the
\* threads that the calls of start_monitoring start, one each; readers, the
\* threads that call get_statistics, max_reads times each; max_tasks, the
\* number of calls of submit_task; type_args, the task_type arguments the
\* callers of submit_task use; statistics, whether the fields the program
\* only writes and get_statistics reads (total_tasks_processed,
\* total_execution_time, successful_tasks, load_history), and failed_tasks,
\* which nothing reads, are part of the state; max_migrations, how many tasks
\* the monitoring threads may move when they are.  With statistics FALSE
\* those fields stay as constructed, the other variables change as with
\* them, and the monitoring thread may go on for ever: a tick then starts
\* only while at most MaxThreads execution threads are asleep.  completed is
\* the number of tasks the program has already run to completion when the
\* model takes over, pending the number of calls of submit_task that have
\* returned after them, whose tasks are pending and whose execution threads
\* are asleep.
InitRun(type_args, max_migrations, statistics, completed, pending, submitters, monitors, readers, max_tasks, max_reads) ==
    /\ reader = [r \in Readers |-> IdleReader]
    /\ version = 0
    /\ capacity \in Capacities
    /\ \E n \in PoolSizes :
          LET queues == SubmittedRun(CompletedRun(NewProcessorQueues(n), completed),
                                     completed + 1, completed + pending)
          IN  /\ processor_queues = [p \in 1..n |-> Hidden(queues[p], statistics)]
              /\ threads = SleepingThreads(queues)
    /\ tasks_submitted = completed + pending
    /\ config = [type_args |-> type_args, max_migrations |-> max_migrations,
                 statistics |-> statistics, completed |-> completed + pending,
                 submitters |-> submitters, monitors |-> monitors,
                 readers |-> readers, max_tasks |-> max_tasks,
                 max_reads |-> max_reads]
    /\ submit = [s \in Submitters |-> IdleSubmit]
    /\ monitor = [m \in Monitors |-> NoMonitor]
    /\ executing = {}
    /\ calls = completed + pending
    /\ accepted = 1..(completed + pending)
    /\ resolutions = [id \in 1..(completed + pending + MaxTasks) |->
                         IF id <= completed THEN << 1 >> ELSE << >>]
    /\ migrations = 0

\* The run of one thread that calls submit_task and one call of
\* start_monitoring.
InitWith(type_args, max_migrations, statistics, completed) ==
    InitRun(type_args, max_migrations, statistics, completed, 0, {"s1"}, {"m1"}, {},
            MaxTasks, 0)

Init == InitWith(TypeArgs, MaxMigrations, TRUE, 0)

\* The queue as the model keeps it: as the program has it, or without the
\* fields only get_statistics reads and failed_tasks.
Observed(q) ==
    IF config.statistics THEN q
    ELSE [q EXCEPT !.total_tasks_processed = 0, !.total_execution_time = 0,
                   !.successful_tasks = 0, !.failed_tasks = 0,
                   !.load_history = << >>]

\* Processor p's queue becomes q.
SetQueue(p, q) ==
    /\ processor_queues' = [processor_queues EXCEPT ![p] = Observed(q)]
    /\ version' = IF config.statistics THEN version + 1 ELSE version

\* The bound on the monitoring threads: a tick moves at most half the tasks.
MayTick ==
    IF config.statistics
    THEN migrations + (MaxTasks \div 2) <= config.max_migrations
    ELSE BagCardinality(threads) + (MaxTasks \div 2) <= MaxThreads

\* ------------------------------------------------------------- submit_task
\* A thread calls submit_task(task_id, priority, execution_time, task_type);
\* line 132 reads self.tasks_submitted.  The task id is the number of the call.
SubmitTask(s, priority, execution_time, task_type) ==
    /\ s \in config.submitters
    /\ submit[s].pc = "idle"
    /\ calls < config.completed + config.max_tasks
    /\ calls' = calls + 1
    /\ submit' = [submit EXCEPT ![s] =
          [IdleSubmit EXCEPT !.pc = "store", !.priority = priority,
                             !.execution_time = execution_time,
                             !.task_type = task_type,
                             !.task_id = calls + 1,
                             !.read = tasks_submitted]]
    /\ UNCHANGED << reader, version, processor_queues, tasks_submitted, capacity, config, monitor, threads,
                    executing, accepted, resolutions, migrations >>

\* line 132 stores self.tasks_submitted; lines 133-139 build the Task, and
\* self.task_types[task_type] raises KeyError for a name not in the catalog.
SubmitStore(s) ==
    /\ submit[s].pc = "store"
    /\ tasks_submitted' = submit[s].read + 1
    /\ version' = IF config.statistics THEN version + 1 ELSE version
    /\ submit' = [submit EXCEPT ![s] =
          IF submit[s].task_type \in task_types
          THEN [@ EXCEPT !.pc = "weigh", !.i = 1,
                         !.task = Task(submit[s].task_id, submit[s].priority,
                                       submit[s].execution_time, submit[s].task_type)]
          ELSE [IdleSubmit EXCEPT !.result = "KeyError"]]
    /\ UNCHANGED << reader, processor_queues, capacity, config, monitor, threads, executing,
                    calls, accepted, resolutions, migrations >>

\* _find_optimal_processor, lines 146-149: the next processor's load is read
FindOptimalLoad(s) ==
    /\ submit[s].pc = "weigh"
    /\ submit[s].i <= Len(processor_queues)
    /\ submit' = [submit EXCEPT ![s] =
          [@ EXCEPT !.pc = "weigh_cpu",
                    !.weight = weight_load(processor_queues[submit[s].i], submit[s].task)]]
    /\ UNCHANGED << reader, version, processor_queues, tasks_submitted, capacity, config, monitor, threads,
                    executing, calls, accepted, resolutions, migrations >>

\* line 150: its cpu_usage is read
FindOptimalCpu(s) ==
    /\ submit[s].pc = "weigh_cpu"
    /\ submit' = [submit EXCEPT ![s] =
          [@ EXCEPT !.pc = "weigh_temperature",
                    !.weight = weight_cpu(@, processor_queues[submit[s].i])]]
    /\ UNCHANGED << reader, version, processor_queues, tasks_submitted, capacity, config, monitor, threads,
                    executing, calls, accepted, resolutions, migrations >>

\* lines 151-152: its temperature is read and the weight appended
FindOptimalWeigh(s) ==
    /\ submit[s].pc = "weigh_temperature"
    /\ submit' = [submit EXCEPT ![s] =
          [@ EXCEPT !.pc = "weigh", !.i = @ + 1, !.weight = 0,
                    !.weighted_loads =
                        Append(@, << submit[s].i,
                                     weight_temperature(submit[s].weight,
                                                        processor_queues[submit[s].i]) >>)]]
    /\ UNCHANGED << reader, version, processor_queues, tasks_submitted, capacity, config, monitor, threads,
                    executing, calls, accepted, resolutions, migrations >>

\* _find_optimal_processor, line 153; min raises ValueError on an empty list
FindOptimalMin(s) ==
    /\ submit[s].pc = "weigh"
    /\ submit[s].i > Len(processor_queues)
    /\ submit' = [submit EXCEPT ![s] =
          IF submit[s].weighted_loads = << >>
          THEN [IdleSubmit EXCEPT !.result = "ValueError"]
          ELSE [@ EXCEPT !.pc = "add", !.target = MinWeighted(submit[s].weighted_loads)]]
    /\ UNCHANGED << reader, version, processor_queues, tasks_submitted, capacity, config, monitor, threads,
                    executing, calls, accepted, resolutions, migrations >>

\* line 141, add_task lines 52-53 on the target processor
SubmitAddAppend(s) ==
    LET p == submit[s].target IN
    /\ submit[s].pc = "add"
    /\ ~processor_queues[p].lock
    /\ SetQueue(p, add_task_append(processor_queues[p], submit[s].task))
    /\ submit' = [submit EXCEPT ![s].pc = "add_load"]
    /\ accepted' = accepted \cup {submit[s].task.id}
    /\ monitor' = Disturbed
    /\ UNCHANGED << reader, tasks_submitted, capacity, config, threads, executing, calls,
                    resolutions, migrations >>

\* add_task line 54
SubmitAddLoad(s) ==
    LET p == submit[s].target IN
    /\ submit[s].pc = "add_load"
    /\ SetQueue(p, update_load(processor_queues[p]))
    /\ submit' = [submit EXCEPT ![s].pc = "add_cpu"]
    /\ UNCHANGED << reader, tasks_submitted, capacity, config, monitor, threads, executing, calls,
                    accepted, resolutions, migrations >>

\* add_task line 55, update_metrics line 46
SubmitAddCpu(s) ==
    LET p == submit[s].target IN
    /\ submit[s].pc = "add_cpu"
    /\ SetQueue(p, update_metrics_cpu(processor_queues[p]))
    /\ submit' = [submit EXCEPT ![s].pc = "add_temperature"]
    /\ UNCHANGED << reader, tasks_submitted, capacity, config, monitor, threads, executing, calls,
                    accepted, resolutions, migrations >>

\* update_metrics lines 47-48
SubmitAddTemperature(s) ==
    LET p == submit[s].target IN
    /\ submit[s].pc = "add_temperature"
    /\ \E memory \in MemorySamples :
          SetQueue(p, update_metrics_temperature(processor_queues[p], memory))
    /\ submit' = [submit EXCEPT ![s].pc = "add_power"]
    /\ UNCHANGED << reader, tasks_submitted, capacity, config, monitor, threads, executing, calls,
                    accepted, resolutions, migrations >>

\* update_metrics line 49
SubmitAddPower(s) ==
    LET p == submit[s].target IN
    /\ submit[s].pc = "add_power"
    /\ SetQueue(p, update_metrics_power(processor_queues[p]))
    /\ submit' = [submit EXCEPT ![s].pc = "add_count"]
    /\ UNCHANGED << reader, tasks_submitted, capacity, config, monitor, threads, executing, calls,
                    accepted, resolutions, migrations >>

\* add_task line 59, _simulate_task_execution line 63
SubmitAddCount(s) ==
    LET p == submit[s].target IN
    /\ submit[s].pc = "add_count"
    /\ SetQueue(p, simulate_task_execution_count(processor_queues[p]))
    /\ submit' = [submit EXCEPT ![s].pc = "add_finish"]
    /\ UNCHANGED << reader, tasks_submitted, capacity, config, monitor, threads, executing, calls,
                    accepted, resolutions, migrations >>

\* _simulate_task_execution lines 64-65, the lock is released and submit_task
\* returns True (line 142)
SubmitAddFinish(s) ==
    LET p == submit[s].target IN
    /\ submit[s].pc = "add_finish"
    /\ SetQueue(p, add_task_finish(processor_queues[p], submit[s].task))
    /\ threads' = threads (+) SetToBag({[task |-> submit[s].task, proc |-> p]})
    /\ submit' = [submit EXCEPT ![s] = [IdleSubmit EXCEPT !.result = "True"]]
    /\ UNCHANGED << reader, tasks_submitted, capacity, config, monitor, executing, calls,
                    accepted, resolutions, migrations >>

\* ----------------------------------------------------------- _execute_task
\* An execution thread wakes from time.sleep and takes the lock; its task is
\* in the queue: lines 73-75.
ExecuteTaskRemove(th) ==
    LET p == th.proc IN
    /\ BagIn(th, threads)
    /\ ~processor_queues[p].lock
    /\ Contains(processor_queues[p].tasks, th.task)
    /\ SetQueue(p, execute_task_remove(processor_queues[p], th.task))
    /\ threads' = threads (-) SetToBag({th})
    /\ executing' = executing \cup {[task |-> th.task, proc |-> p, pc |-> "count"]}
    /\ resolutions' = [resolutions EXCEPT ![th.task.id] = Append(@, p)]
    /\ monitor' = Disturbed
    /\ UNCHANGED << reader, tasks_submitted, capacity, config, submit, calls, accepted, migrations >>

\* An execution thread wakes and takes the lock; its task is no longer in the
\* queue: line 74 is false, the lock is released and the thread ends.
ExecuteTaskStale(th) ==
    LET p == th.proc IN
    /\ BagIn(th, threads)
    /\ ~processor_queues[p].lock
    /\ ~Contains(processor_queues[p].tasks, th.task)
    /\ threads' = threads (-) SetToBag({th})
    /\ UNCHANGED << reader, version, processor_queues, tasks_submitted, capacity, config, submit, monitor,
                    executing, calls, accepted, resolutions, migrations >>

\* _execute_task lines 76-81
ExecuteTaskCount(e, success) ==
    /\ e \in executing
    /\ e.pc = "count"
    /\ success \in Outcomes(processor_queues[e.proc], e.task)
    /\ SetQueue(e.proc, execute_task_count(processor_queues[e.proc], success))
    /\ executing' = (executing \ {e}) \cup {[e EXCEPT !.pc = "load"]}
    /\ UNCHANGED << reader, tasks_submitted, capacity, config, submit, monitor, threads, calls,
                    accepted, resolutions, migrations >>

\* _execute_task line 83
ExecuteTaskLoad(e) ==
    /\ e \in executing
    /\ e.pc = "load"
    /\ SetQueue(e.proc, update_load(processor_queues[e.proc]))
    /\ executing' = (executing \ {e}) \cup {[e EXCEPT !.pc = "cpu"]}
    /\ UNCHANGED << reader, tasks_submitted, capacity, config, submit, monitor, threads, calls,
                    accepted, resolutions, migrations >>

\* _execute_task line 84, update_metrics line 46
ExecuteTaskCpu(e) ==
    /\ e \in executing
    /\ e.pc = "cpu"
    /\ SetQueue(e.proc, update_metrics_cpu(processor_queues[e.proc]))
    /\ executing' = (executing \ {e}) \cup {[e EXCEPT !.pc = "temperature"]}
    /\ UNCHANGED << reader, tasks_submitted, capacity, config, submit, monitor, threads, calls,
                    accepted, resolutions, migrations >>

\* update_metrics lines 47-48
ExecuteTaskTemperature(e) ==
    /\ e \in executing
    /\ e.pc = "temperature"
    /\ \E memory \in MemorySamples :
          SetQueue(e.proc, update_metrics_temperature(processor_queues[e.proc], memory))
    /\ executing' = (executing \ {e}) \cup {[e EXCEPT !.pc = "power"]}
    /\ UNCHANGED << reader, tasks_submitted, capacity, config, submit, monitor, threads, calls,
                    accepted, resolutions, migrations >>

\* update_metrics line 49, the lock is released (line 86 prints); the thread ends
ExecuteTaskFinish(e) ==
    /\ e \in executing
    /\ e.pc = "power"
    /\ SetQueue(e.proc, execute_task_finish(processor_queues[e.proc]))
    /\ executing' = executing \ {e}
    /\ UNCHANGED << reader, tasks_submitted, capacity, config, submit, monitor, threads, calls,
                    accepted, resolutions, migrations >>

\* ------------------------------------------- start_monitoring, balance_load
\* start_monitoring starts a thread that runs balance_load
StartMonitoring(m) ==
    /\ m \in config.monitors
    /\ monitor[m].pc = "unstarted"
    /\ monitor' = [monitor EXCEPT ![m] = [NoMonitor EXCEPT !.pc = "sleep"]]
    /\ UNCHANGED << reader, version, processor_queues, tasks_submitted, capacity, config, submit, threads,
                    executing, calls, accepted, resolutions, migrations >>

\* balance_load wakes from time.sleep and calls _perform_load_balancing, whose
\* line 177 calls sorted().
Tick(m) ==
    /\ monitor[m].pc = "sleep"
    /\ MayTick
    /\ monitor' = [monitor EXCEPT ![m] =
          [NoMonitor EXCEPT !.pc = "keys",
                            !.quiet = \A p \in Procs : ~processor_queues[p].lock]]
    /\ UNCHANGED << reader, version, processor_queues, tasks_submitted, capacity, config, submit, threads,
                    executing, calls, accepted, resolutions, migrations >>

\* sorted() calls the key of the next processor, which reads its load.
TickKey(m) ==
    /\ monitor[m].pc = "keys"
    /\ Len(monitor[m].keys) < Len(processor_queues)
    /\ monitor' = [monitor EXCEPT ![m].keys =
          Append(@, processor_queues[Len(monitor[m].keys) + 1].load)]
    /\ UNCHANGED << reader, version, processor_queues, tasks_submitted, capacity, config, submit, threads,
                    executing, calls, accepted, resolutions, migrations >>

\* sorted() has all keys and returns; lines 178-179.  processors[-1] raises
\* IndexError on an empty pool, which ends the thread.
TickSort(m) ==
    LET processors == SortedByLoad(monitor[m].keys, Len(monitor[m].keys)) IN
    /\ monitor[m].pc = "keys"
    /\ Len(monitor[m].keys) = Len(processor_queues)
    /\ monitor' = [monitor EXCEPT ![m] =
          IF processors = << >>
          THEN [NoMonitor EXCEPT !.pc = "dead"]
          ELSE [@ EXCEPT !.pc = "check", !.processors = processors,
                         !.most_loaded = processors[Len(processors)],
                         !.least_loaded = processors[1]]]
    /\ UNCHANGED << reader, version, processor_queues, tasks_submitted, capacity, config, submit, threads,
                    executing, calls, accepted, resolutions, migrations >>

\* line 181 reads most_loaded.load
CheckSkewMost(m) ==
    /\ monitor[m].pc = "check"
    /\ monitor' = [monitor EXCEPT ![m].pc = "check_least",
                                  ![m].most_load =
                                      processor_queues[monitor[m].most_loaded].load]
    /\ UNCHANGED << reader, version, processor_queues, tasks_submitted, capacity, config, submit, threads,
                    executing, calls, accepted, resolutions, migrations >>

\* line 181 reads least_loaded.load and compares
CheckSkew(m) ==
    LET triggered == Skewed(monitor[m].most_load,
                            processor_queues[monitor[m].least_loaded].load) IN
    /\ monitor[m].pc = "check_least"
    /\ monitor' = [monitor EXCEPT ![m] =
          IF triggered THEN [@ EXCEPT !.triggered = TRUE, !.pc = "count"]
          ELSE [NoMonitor EXCEPT !.pc = "sleep"]]
    /\ UNCHANGED << reader, version, processor_queues, tasks_submitted, capacity, config, submit, threads,
                    executing, calls, accepted, resolutions, migrations >>

\* line 182; pending records len(most_loaded.tasks) at this time
CountTasksToMove(m) ==
    LET most_loaded == processor_queues[monitor[m].most_loaded] IN
    /\ monitor[m].pc = "count"
    /\ monitor' = [monitor EXCEPT ![m].pending = Len(most_loaded.tasks),
                                  ![m].tasks_to_move = TasksToMove(most_loaded),
                                  ![m].pc = "loop"]
    /\ UNCHANGED << reader, version, processor_queues, tasks_submitted, capacity, config, submit, threads,
                    executing, calls, accepted, resolutions, migrations >>

\* line 186: the range is exhausted; _perform_load_balancing returns
LoopEnd(m) ==
    /\ monitor[m].pc = "loop"
    /\ monitor[m].i >= monitor[m].tasks_to_move
    /\ monitor' = [monitor EXCEPT ![m] = [NoMonitor EXCEPT !.pc = "sleep"]]
    /\ UNCHANGED << reader, version, processor_queues, tasks_submitted, capacity, config, submit, threads,
                    executing, calls, accepted, resolutions, migrations >>

\* line 187, get_task lines 89-91 on a non-empty queue
GetTaskPop(m) ==
    LET p == monitor[m].most_loaded IN
    /\ monitor[m].pc = "loop"
    /\ monitor[m].i < monitor[m].tasks_to_move
    /\ ~processor_queues[p].lock
    /\ processor_queues[p].tasks # << >>
    /\ SetQueue(p, get_task_popleft(processor_queues[p]))
    /\ monitor' = [DisturbedBy(m) EXCEPT ![m].task = Head(processor_queues[p].tasks),
                                         ![m].pc = "get_load"]
    /\ UNCHANGED << reader, tasks_submitted, capacity, config, submit, threads, executing, calls,
                    accepted, resolutions, migrations >>

\* line 187, get_task lines 89-90 and 94 on an empty queue: None is returned,
\* line 188 is false and the loop goes on
GetTaskNone(m) ==
    LET p == monitor[m].most_loaded IN
    /\ monitor[m].pc = "loop"
    /\ monitor[m].i < monitor[m].tasks_to_move
    /\ ~processor_queues[p].lock
    /\ processor_queues[p].tasks = << >>
    /\ monitor' = [monitor EXCEPT ![m].i = @ + 1]
    /\ UNCHANGED << reader, version, processor_queues, tasks_submitted, capacity, config, submit, threads,
                    executing, calls, accepted, resolutions, migrations >>

\* get_task lines 92-93; the task is returned and line 188 is true
GetTaskFinish(m) ==
    LET p == monitor[m].most_loaded IN
    /\ monitor[m].pc = "get_load"
    /\ SetQueue(p, get_task_finish(processor_queues[p]))
    /\ monitor' = [monitor EXCEPT ![m].pc = "add"]
    /\ UNCHANGED << reader, tasks_submitted, capacity, config, submit, threads, executing, calls,
                    accepted, resolutions, migrations >>

\* line 189, add_task lines 52-53 on the least loaded processor
MigrateAddAppend(m) ==
    LET p == monitor[m].least_loaded IN
    /\ monitor[m].pc = "add"
    /\ ~processor_queues[p].lock
    /\ SetQueue(p, add_task_append(processor_queues[p], monitor[m].task))
    /\ monitor' = [DisturbedBy(m) EXCEPT ![m].pc = "add_load"]
    /\ UNCHANGED << reader, tasks_submitted, capacity, config, submit, threads, executing, calls,
                    accepted, resolutions, migrations >>

\* add_task line 54
MigrateAddLoad(m) ==
    LET p == monitor[m].least_loaded IN
    /\ monitor[m].pc = "add_load"
    /\ SetQueue(p, update_load(processor_queues[p]))
    /\ monitor' = [monitor EXCEPT ![m].pc = "add_cpu"]
    /\ UNCHANGED << reader, tasks_submitted, capacity, config, submit, threads, executing, calls,
                    accepted, resolutions, migrations >>

\* add_task line 55, update_metrics line 46
MigrateAddCpu(m) ==
    LET p == monitor[m].least_loaded IN
    /\ monitor[m].pc = "add_cpu"
    /\ SetQueue(p, update_metrics_cpu(processor_queues[p]))
    /\ monitor' = [monitor EXCEPT ![m].pc = "add_temperature"]
    /\ UNCHANGED << reader, tasks_submitted, capacity, config, submit, threads, executing, calls,
                    accepted, resolutions, migrations >>

\* update_metrics lines 47-48
MigrateAddTemperature(m) ==
    LET p == monitor[m].least_loaded IN
    /\ monitor[m].pc = "add_temperature"
    /\ \E memory \in MemorySamples :
          SetQueue(p, update_metrics_temperature(processor_queues[p], memory))
    /\ monitor' = [monitor EXCEPT ![m].pc = "add_power"]
    /\ UNCHANGED << reader, tasks_submitted, capacity, config, submit, threads, executing, calls,
                    accepted, resolutions, migrations >>

\* update_metrics line 49
MigrateAddPower(m) ==
    LET p == monitor[m].least_loaded IN
    /\ monitor[m].pc = "add_power"
    /\ SetQueue(p, update_metrics_power(processor_queues[p]))
    /\ monitor' = [monitor EXCEPT ![m].pc = "add_count"]
    /\ UNCHANGED << reader, tasks_submitted, capacity, config, submit, threads, executing, calls,
                    accepted, resolutions, migrations >>

\* add_task line 59, _simulate_task_execution line 63
MigrateAddCount(m) ==
    LET p == monitor[m].least_loaded IN
    /\ monitor[m].pc = "add_count"
    /\ SetQueue(p, simulate_task_execution_count(processor_queues[p]))
    /\ monitor' = [monitor EXCEPT ![m].pc = "add_finish"]
    /\ UNCHANGED << reader, tasks_submitted, capacity, config, submit, threads, executing, calls,
                    accepted, resolutions, migrations >>

\* _simulate_task_execution lines 64-65 and the release; the next round of
\* the loop
MigrateAddFinish(m) ==
    LET p == monitor[m].least_loaded IN
    /\ monitor[m].pc = "add_finish"
    /\ SetQueue(p, add_task_finish(processor_queues[p], monitor[m].task))
    /\ threads' = threads (+) SetToBag({[task |-> monitor[m].task, proc |-> p]})
    /\ monitor' = [monitor EXCEPT ![m].pc = "loop", ![m].task = None,
                                  ![m].i = @ + 1, ![m].moved = @ + 1]
    /\ migrations' = IF config.statistics THEN migrations + 1 ELSE migrations
    /\ UNCHANGED << reader, tasks_submitted, capacity, config, submit, executing, calls,
                    accepted, resolutions >>

Next ==
    \/ \E s \in Submitters, priority \in Priorities, execution_time \in ExecTimes,
          task_type \in config.type_args : SubmitTask(s, priority, execution_time, task_type)
    \/ \E s \in Submitters : SubmitStore(s)
    \/ \E s \in Submitters : FindOptimalLoad(s)
    \/ \E s \in Submitters : FindOptimalCpu(s)
    \/ \E s \in Submitters : FindOptimalWeigh(s)
    \/ \E s \in Submitters : FindOptimalMin(s)
    \/ \E s \in Submitters : SubmitAddAppend(s)
    \/ \E s \in Submitters : SubmitAddLoad(s)
    \/ \E s \in Submitters : SubmitAddCpu(s)
    \/ \E s \in Submitters : SubmitAddTemperature(s)
    \/ \E s \in Submitters : SubmitAddPower(s)
    \/ \E s \in Submitters : SubmitAddCount(s)
    \/ \E s \in Submitters : SubmitAddFinish(s)
    \/ \E th \in BagToSet(threads) : ExecuteTaskRemove(th)
    \/ \E th \in BagToSet(threads) : ExecuteTaskStale(th)
    \/ \E e \in executing, success \in BOOLEAN : ExecuteTaskCount(e, success)
    \/ \E e \in executing : ExecuteTaskLoad(e)
    \/ \E e \in executing : ExecuteTaskCpu(e)
    \/ \E e \in executing : ExecuteTaskTemperature(e)
    \/ \E e \in executing : ExecuteTaskFinish(e)
    \/ \E m \in Monitors : StartMonitoring(m)
    \/ \E m \in Monitors : Tick(m)
    \/ \E m \in Monitors : TickKey(m)
    \/ \E m \in Monitors : TickSort(m)
    \/ \E m \in Monitors : CheckSkewMost(m)
    \/ \E m \in Monitors : CheckSkew(m)
    \/ \E m \in Monitors : CountTasksToMove(m)
    \/ \E m \in Monitors : LoopEnd(m)
    \/ \E m \in Monitors : GetTaskPop(m)
    \/ \E m \in Monitors : GetTaskNone(m)
    \/ \E m \in Monitors : GetTaskFinish(m)
    \/ \E m \in Monitors : MigrateAddAppend(m)
    \/ \E m \in Monitors : MigrateAddLoad(m)
    \/ \E m \in Monitors : MigrateAddCpu(m)
    \/ \E m \in Monitors : MigrateAddTemperature(m)
    \/ \E m \in Monitors : MigrateAddPower(m)
    \/ \E m \in Monitors : MigrateAddCount(m)
    \/ \E m \in Monitors : MigrateAddFinish(m)

Spec == Init /\ [][Next]_vars

\* ---------------------------------------------------------- get_statistics
\* A thread calls get_statistics; line 157 reads self.tasks_submitted.
GetStatistics(r) ==
    /\ r \in config.readers
    /\ reader[r].pc = "idle"
    /\ reader[r].reads < config.max_reads
    /\ reader' = [reader EXCEPT ![r] =
          [@ EXCEPT !.pc = "entries", !.i = 1, !.at = EntryReads[1],
                    !.total_tasks = tasks_submitted,
                    !.processors = << >>,
                    !.previous = reader[r].result,
                    !.previous_base = reader[r].base,
                    !.previous_quiet = reader[r].quiet,
                    !.base = IF config.max_reads > 1 THEN version ELSE 0,
                    !.quiet = config.max_reads > 1, !.reads = @ + 1]]
    /\ UNCHANGED << version, processor_queues, tasks_submitted, capacity, config, submit, monitor,
                    threads, executing, calls, accepted, resolutions, migrations >>

\* lines 159-168: the next read of a field of the next processor, without
\* the lock; after line 167 the entry is complete
GetStatisticsEntry(r) ==
    LET p == processor_queues[reader[r].i]
        entry == statistics_entry(reader[r].entry, p, reader[r].at)
    IN
    /\ reader[r].pc = "entries"
    /\ reader[r].i <= Len(processor_queues)
    /\ reader' = [reader EXCEPT ![r] =
          IF reader[r].at # EntryReads[Len(EntryReads)]
          THEN [@ EXCEPT !.entry = entry, !.at = NextRead(p, reader[r].at),
                         !.quiet = @ /\ version = reader[r].base]
          ELSE [@ EXCEPT !.processors = Append(@, entry),
                         !.entry = NoEntry, !.at = EntryReads[1], !.i = @ + 1,
                         !.quiet = @ /\ version = reader[r].base]]
    /\ UNCHANGED << version, processor_queues, tasks_submitted, capacity, config, submit, monitor,
                    threads, executing, calls, accepted, resolutions, migrations >>

\* line 156: the dictionary is returned
GetStatisticsReturn(r) ==
    /\ reader[r].pc = "entries"
    /\ reader[r].i > Len(processor_queues)
    /\ reader' = [reader EXCEPT ![r] =
          [@ EXCEPT !.pc = "idle", !.i = 0, !.at = "none", !.total_tasks = 0,
                    !.processors = << >>,
                    !.result = [total_tasks |-> reader[r].total_tasks,
                                processors |-> reader[r].processors],
                    !.quiet = @ /\ version = reader[r].base]]
    /\ UNCHANGED << version, processor_queues, tasks_submitted, capacity, config, submit, monitor,
                    threads, executing, calls, accepted, resolutions, migrations >>

\* The threads that call submit_task and the execution threads, without
\* start_monitoring.  Nothing but _execute_task takes a task out of a queue
\* here, so every execution thread finds its task pending (line 69 is true).
SubmitNext ==
    \/ \E s \in Submitters, priority \in Priorities, execution_time \in ExecTimes,
          task_type \in config.type_args : SubmitTask(s, priority, execution_time, task_type)
    \/ \E s \in Submitters : SubmitStore(s)
    \/ \E s \in Submitters : FindOptimalLoad(s)
    \/ \E s \in Submitters : FindOptimalCpu(s)
    \/ \E s \in Submitters : FindOptimalWeigh(s)
    \/ \E s \in Submitters : FindOptimalMin(s)
    \/ \E s \in Submitters : SubmitAddAppend(s)
    \/ \E s \in Submitters : SubmitAddLoad(s)
    \/ \E s \in Submitters : SubmitAddCpu(s)
    \/ \E s \in Submitters : SubmitAddTemperature(s)
    \/ \E s \in Submitters : SubmitAddPower(s)
    \/ \E s \in Submitters : SubmitAddCount(s)
    \/ \E s \in Submitters : SubmitAddFinish(s)
    \/ \E th \in BagToSet(threads) : ExecuteTaskRemove(th)
    \/ \E e \in executing, success \in BOOLEAN : ExecuteTaskCount(e, success)
    \/ \E e \in executing : ExecuteTaskLoad(e)
    \/ \E e \in executing : ExecuteTaskCpu(e)
    \/ \E e \in executing : ExecuteTaskTemperature(e)
    \/ \E e \in executing : ExecuteTaskFinish(e)

\* Runs of two threads that call submit_task: two processors of capacity 1,
\* tasks of one type.
RaceInit ==
    /\ InitRun({"compute_intensive"}, 0, TRUE, 0, 0, Submitters, {}, {}, MaxTasks, 0)
    /\ Len(processor_queues) = 2
    /\ capacity = << 1, 1 >>

RaceSpec == RaceInit /\ [][SubmitNext]_vars

\* The threads that call submit_task and get_statistics and the execution
\* threads, without start_monitoring.
CallerNext ==
    \/ \E s \in Submitters, priority \in Priorities, execution_time \in ExecTimes,
          task_type \in config.type_args : SubmitTask(s, priority, execution_time, task_type)
    \/ \E s \in Submitters : SubmitStore(s)
    \/ \E s \in Submitters : FindOptimalLoad(s)
    \/ \E s \in Submitters : FindOptimalCpu(s)
    \/ \E s \in Submitters : FindOptimalWeigh(s)
    \/ \E s \in Submitters : FindOptimalMin(s)
    \/ \E s \in Submitters : SubmitAddAppend(s)
    \/ \E s \in Submitters : SubmitAddLoad(s)
    \/ \E s \in Submitters : SubmitAddCpu(s)
    \/ \E s \in Submitters : SubmitAddTemperature(s)
    \/ \E s \in Submitters : SubmitAddPower(s)
    \/ \E s \in Submitters : SubmitAddCount(s)
    \/ \E s \in Submitters : SubmitAddFinish(s)
    \/ \E th \in BagToSet(threads) : ExecuteTaskRemove(th)
    \/ \E e \in executing, success \in BOOLEAN : ExecuteTaskCount(e, success)
    \/ \E e \in executing : ExecuteTaskLoad(e)
    \/ \E e \in executing : ExecuteTaskCpu(e)
    \/ \E e \in executing : ExecuteTaskTemperature(e)
    \/ \E e \in executing : ExecuteTaskFinish(e)
    \/ \E r \in Readers : GetStatistics(r)
    \/ \E r \in Readers : GetStatisticsEntry(r)
    \/ \E r \in Readers : GetStatisticsReturn(r)

\* Runs of one thread that calls submit_task once and one that calls
\* get_statistics: two processors of capacity 1.
CallerInit ==
    /\ InitRun({"compute_intensive"}, 0, TRUE, 0, 0, {"s1"}, {}, Readers, 1, MaxReads)
    /\ Len(processor_queues) = 2
    /\ capacity = << 1, 1 >>

CallerSpec == CallerInit /\ [][CallerNext]_vars

\* The execution threads and the monitoring threads, with no call of
\* submit_task under way.
BalanceNext ==
    \/ \E th \in BagToSet(threads) : ExecuteTaskRemove(th)
    \/ \E th \in BagToSet(threads) : ExecuteTaskStale(th)
    \/ \E e \in executing, success \in BOOLEAN : ExecuteTaskCount(e, success)
    \/ \E e \in executing : ExecuteTaskLoad(e)
    \/ \E e \in executing : ExecuteTaskCpu(e)
    \/ \E e \in executing : ExecuteTaskTemperature(e)
    \/ \E e \in executing : ExecuteTaskFinish(e)
    \/ \E m \in Monitors : StartMonitoring(m)
    \/ \E m \in Monitors : Tick(m)
    \/ \E m \in Monitors : TickKey(m)
    \/ \E m \in Monitors : TickSort(m)
    \/ \E m \in Monitors : CheckSkewMost(m)
    \/ \E m \in Monitors : CheckSkew(m)
    \/ \E m \in Monitors : CountTasksToMove(m)
    \/ \E m \in Monitors : LoopEnd(m)
    \/ \E m \in Monitors : GetTaskPop(m)
    \/ \E m \in Monitors : GetTaskNone(m)
    \/ \E m \in Monitors : GetTaskFinish(m)
    \/ \E m \in Monitors : MigrateAddAppend(m)
    \/ \E m \in Monitors : MigrateAddLoad(m)
    \/ \E m \in Monitors : MigrateAddCpu(m)
    \/ \E m \in Monitors : MigrateAddTemperature(m)
    \/ \E m \in Monitors : MigrateAddPower(m)
    \/ \E m \in Monitors : MigrateAddCount(m)
    \/ \E m \in Monitors : MigrateAddFinish(m)

\* The monitoring thread and the threads that call get_statistics while the
\* execution threads are asleep (time.sleep(execution_time) of line 72 lasts
\* as long as the caller of submit_task made it): get_task finds its queue
\* as line 182 counted it.
WatchNext ==
    \/ \E m \in Monitors : StartMonitoring(m)
    \/ \E m \in Monitors : Tick(m)
    \/ \E m \in Monitors : TickKey(m)
    \/ \E m \in Monitors : TickSort(m)
    \/ \E m \in Monitors : CheckSkewMost(m)
    \/ \E m \in Monitors : CheckSkew(m)
    \/ \E m \in Monitors : CountTasksToMove(m)
    \/ \E m \in Monitors : LoopEnd(m)
    \/ \E m \in Monitors : GetTaskPop(m)
    \/ \E m \in Monitors : GetTaskFinish(m)
    \/ \E m \in Monitors : MigrateAddAppend(m)
    \/ \E m \in Monitors : MigrateAddLoad(m)
    \/ \E m \in Monitors : MigrateAddCpu(m)
    \/ \E m \in Monitors : MigrateAddTemperature(m)
    \/ \E m \in Monitors : MigrateAddPower(m)
    \/ \E m \in Monitors : MigrateAddCount(m)
    \/ \E m \in Monitors : MigrateAddFinish(m)
    \/ \E r \in Readers : GetStatistics(r)
    \/ \E r \in Readers : GetStatisticsEntry(r)
    \/ \E r \in Readers : GetStatisticsReturn(r)

\* Runs of a monitoring thread and a thread that calls get_statistics, after
\* MaxTasks calls of submit_task: two processors of capacity 1 and tasks of
\* one type.
WatchInit ==
    /\ InitRun({"compute_intensive"}, MaxMigrations, TRUE, 0, MaxTasks, {}, {"m1"}, Readers, 0, 1)
    /\ Len(processor_queues) = 2
    /\ capacity = << 1, 1 >>

WatchSpec == WatchInit /\ [][WatchNext]_vars

\* ------------------------------------------------------------- fair runs
\* The steps of a started monitoring thread.
MonitorStep(m) ==
    \/ Tick(m) \/ TickKey(m) \/ TickSort(m)
    \/ CheckSkewMost(m) \/ CheckSkew(m) \/ CountTasksToMove(m) \/ LoopEnd(m)
    \/ GetTaskPop(m) \/ GetTaskNone(m) \/ GetTaskFinish(m)
    \/ MigrateAddAppend(m) \/ MigrateAddLoad(m) \/ MigrateAddCpu(m)
    \/ MigrateAddTemperature(m) \/ MigrateAddPower(m) \/ MigrateAddCount(m)
    \/ MigrateAddFinish(m)

\* An execution thread started for task id on processor p wakes.
ExecuteWake(id, p) ==
    \E th \in BagToSet(threads) :
        /\ th.task.id = id
        /\ th.proc = p
        /\ (ExecuteTaskRemove(th) \/ ExecuteTaskStale(th))

\* The execution thread inside the with-block of processor p goes on.
ExecuteStep(p) ==
    \E e \in executing :
        /\ e.proc = p
        /\ \/ ExecuteTaskCount(e, TRUE) \/ ExecuteTaskCount(e, FALSE)
           \/ ExecuteTaskLoad(e) \/ ExecuteTaskCpu(e) \/ ExecuteTaskTemperature(e)
           \/ ExecuteTaskFinish(e)

\* Every thread that can take a step takes one: a monitoring thread wakes
\* from time.sleep and goes on, an execution thread wakes from time.sleep and
\* goes on; and a thread that waits for a lock which is free again and again
\* gets it.
Fairness ==
    /\ \A m \in Monitors : SF_vars(MonitorStep(m))
    /\ \A id \in 1..MaxTasks, p \in 1..2 : SF_vars(ExecuteWake(id, p))
    /\ \A p \in 1..2 : WF_vars(ExecuteStep(p))

\* Runs without the statistics, so that the monitoring thread is not bounded:
\* two processors of capacity 1 and tasks of one type.
LiveInit ==
    /\ InitRun({"compute_intensive"}, 0, FALSE, 0, MaxTasks, {}, {"m1"}, {}, 0, 0)
    /\ Len(processor_queues) = 2
    /\ capacity = << 1, 1 >>

LiveSpec == LiveInit /\ [][BalanceNext]_vars /\ Fairness

\* A thread that calls submit_task goes on inside the with-block of add_task.
AddTaskStep(s) ==
    \/ SubmitAddLoad(s) \/ SubmitAddCpu(s) \/ SubmitAddTemperature(s)
    \/ SubmitAddPower(s) \/ SubmitAddCount(s) \/ SubmitAddFinish(s)

\* What the scheduler and threading.Lock grant, which is weak fairness only:
\* a thread that can go on for good does go on.  A monitoring thread whose
\* time.sleep is over, or which waits for a lock that stays free, takes its
\* step; a thread inside a with-block takes its next step; of the execution
\* threads whose time.sleep is over and whose lock stays free one wakes.
\* Nothing says which of the threads that wait for a lock gets it.
TickFairness ==
    /\ \A m \in Monitors : WF_vars(MonitorStep(m))
    /\ WF_vars(\E id \in 1..MaxTasks, p \in 1..2 : ExecuteWake(id, p))
    /\ \A p \in 1..2 : WF_vars(ExecuteStep(p))
    /\ \A s \in Submitters : WF_vars(AddTaskStep(s))

\* Runs without the statistics of a monitoring thread, the execution threads
\* and a thread that calls submit_task once more after MaxTasks - 1 calls:
\* two processors of capacity 1 and tasks of one type.
TickInit ==
    /\ InitRun({"compute_intensive"}, 0, FALSE, 0, MaxTasks - 1, {"s1"}, {"m1"}, {}, 1, 0)
    /\ Len(processor_queues) = 2
    /\ capacity = << 1, 1 >>

TickSpec == TickInit /\ [][Next]_vars /\ TickFairness

\* Runs that begin after CompletedBefore tasks have run to completion, so
\* that load_history fills up: two processors of capacity 1, tasks of one type.
HistoryInit ==
    /\ InitWith({"compute_intensive"}, MaxMigrations, TRUE, CompletedBefore)
    /\ Len(processor_queues) = 2
    /\ capacity = << 1, 1 >>

HistorySpec == HistoryInit /\ [][Next]_vars

\* Runs in which start_monitoring is called twice: two processors of
\* capacity 1 and tasks of one type.
RestartInit ==
    /\ InitRun({"compute_intensive"}, 1, TRUE, 0, MaxTasks, {}, Monitors, {}, 0, 0)
    /\ Len(processor_queues) = 2
    /\ capacity = << 1, 1 >>

RestartSpec == RestartInit /\ [][BalanceNext]_vars

\* ------------------------------------------------------------------ claims
RECURSIVE SumSeq(_)
SumSeq(numbers) ==
    IF numbers = << >> THEN 0 ELSE Head(numbers) + SumSeq(Tail(numbers))

\* sum of pending counts over all processors
PendingCount == SumSeq([p \in Procs |-> Len(processor_queues[p].tasks)])

\* sum over all processors of successful_tasks + failed_tasks
ResolvedCount ==
    SumSeq([p \in Procs |-> processor_queues[p].successful_tasks
                            + processor_queues[p].failed_tasks])

\* The execution threads between line 75, which removed their task, and
\* lines 76-81, which count it.
ResolvingCount == Cardinality({e \in executing : e.pc = "count"})

\* The monitoring thread holds a task between get_task's popleft and
\* add_task's append.
InFlight(m) == monitor[m].pc \in {"get_load", "add"}

InFlightCount == Cardinality({m \in Monitors : InFlight(m)})

\* The places where the task with this id is: positions in pending queues and
\* monitoring threads that hold it in flight.
Places(id) ==
    Cardinality(UNION {{<< p, i >> : i \in {j \in 1..Len(processor_queues[p].tasks) :
                                               processor_queues[p].tasks[j].id = id}} :
                       p \in Procs})
    + Cardinality({m \in Monitors : InFlight(m) /\ monitor[m].task.id = id})

\* C1: no task is lost or duplicated under migration.  In every reachable
\* state each accepted task that is not resolved is in exactly one place (one
\* position of one pending queue, or in flight in a monitoring thread), every
\* other task is nowhere, and the pending counts plus the migrations in flight
\* equal the accepted tasks minus the resolved ones: the tasks counted in
\* successful_tasks and failed_tasks and those their execution thread has
\* removed (line 75) and is about to count (lines 76-81).
NoTaskLostOrDuplicated ==
    /\ \A id \in DOMAIN resolutions :
          Places(id) = IF id \in accepted /\ resolutions[id] = << >> THEN 1 ELSE 0
    /\ PendingCount + InFlightCount
          = Cardinality(accepted) - (ResolvedCount + ResolvingCount)

\* C1 witness: after one migration, a second accepted task is in flight while
\* another is pending and another resolved.
TaskInFlightWitness ==
    \E m \in Monitors :
        /\ InFlight(m)
        /\ monitor[m].task.id \in accepted
        /\ migrations >= 1
        /\ PendingCount >= 1
        /\ ResolvedCount >= 1

\* C2: each accepted task is resolved at most once over the whole pool.  No
\* task is counted twice in successful_tasks / failed_tasks, and their sum
\* over the processors never exceeds the number of accepted tasks.
ResolvedAtMostOnce ==
    /\ \A id \in DOMAIN resolutions : Len(resolutions[id]) <= 1
    /\ ResolvedCount <= Cardinality(accepted)

\* C2 witness: a task was migrated away from a processor and back to it, was
\* resolved there, and an execution thread started for it on that processor
\* is still asleep.
ResolvedWithStaleThreadWitness ==
    \E th \in BagToSet(threads) :
        /\ resolutions[th.task.id] = << th.proc >>
        /\ migrations >= 2

\* C3: every accepted task eventually runs to completion.  Under fair
\* scheduling of the execution and monitoring threads, there comes a time
\* when every task that submit_task admitted has been removed from its
\* queue by its execution thread, to be counted as successful or failed.
\* (In LiveSpec the calls of submit_task have returned in the initial state.)
EveryTaskCompletes ==
    <>(\A id \in accepted : resolutions[id] # << >>)

\* C4: submit_task with a task type that is not in the catalog has no side
\* effects.  The step in which the call fails leaves tasks_submitted, every
\* processor's queue, load, load_history, metrics and counters unchanged, and
\* creates no task and no execution thread.
UnknownTypeHasNoSideEffects ==
    [][\A s \in Submitters :
          (/\ submit[s].pc = "store"
           /\ submit[s].task_type \notin task_types
           /\ submit'[s].pc = "idle")
          => /\ tasks_submitted' = submit[s].read
             /\ processor_queues' = processor_queues
             /\ threads' = threads
             /\ accepted' = accepted]_vars

\* C5: no balancer has an empty pool, so no submit_task chooses among zero
\* candidates and no tick of the monitoring thread takes the most and least
\* loaded of zero processors.
NoSelectionOnEmptyPool ==
    /\ \A s \in Submitters :
          /\ submit[s].result # "ValueError"
          /\ submit[s].pc \in {"weigh", "min"} => processor_queues # << >>
    /\ \A m \in Monitors : monitor[m].pc # "dead"

\* The weight of C6, times 200000, for the processor and the task type.
CostOf(q, task_type) ==
    q.load * (IF task_type \in q.specialization THEN 7 ELSE 10)
           * (200 + q.metrics.cpu_usage)
           * (100 + (q.metrics.temperature - 40))

\* C6: placement is a deterministic choice of the minimum weight.  On every
\* reachable snapshot of a non-empty pool and for every task type of the
\* catalog, _find_optimal_processor returns a processor of minimal weight
\* load x (0.7 if specialized else 1) x (1 + cpu_usage/200) x
\* (1 + (temperature - 40)/100), the one of lowest index among those of equal
\* minimal weight; and the processor a submit_task in progress has chosen is
\* the first of minimal weight among the weights it has read.
PlacementIsFirstMinimum ==
    /\ processor_queues # << >> =>
          \A task_type \in task_types :
              LET chosen == find_optimal_processor(processor_queues,
                                                   Task(1, 1, 1, task_type)) IN
              /\ chosen \in Procs
              /\ \A p \in Procs :
                    /\ CostOf(processor_queues[chosen], task_type)
                          <= CostOf(processor_queues[p], task_type)
                    /\ p < chosen =>
                          CostOf(processor_queues[chosen], task_type)
                             < CostOf(processor_queues[p], task_type)
    /\ \A s \in Submitters :
          submit[s].pc \in {"add"} \cup InAddTask =>
              LET w == submit[s].weighted_loads IN
              \A k \in 1..Len(w) :
                  /\ w[submit[s].target][2] <= w[k][2]
                  /\ k < submit[s].target => w[submit[s].target][2] < w[k][2]

\* C6 witness: a submit_task has read two equal weights that are not zero and
\* has chosen the first processor.
EqualWeightsWitness ==
    \E s \in Submitters :
        /\ submit[s].pc = "add"
        /\ Len(submit[s].weighted_loads) = 2
        /\ submit[s].weighted_loads[1][2] = submit[s].weighted_loads[2][2]
        /\ submit[s].weighted_loads[1][2] > 0
        /\ submit[s].target = 1

\* C7: specialization preference.  For two processors equal in load,
\* cpu_usage and temperature of which only one is specialized in the task's
\* type, and no other processor of lower weight, _find_optimal_processor does
\* not return the one that is not specialized: at every load, idle
\* processors included, whichever comes first in the list.
SpecializedIsPreferred ==
    \A task_type \in task_types : \A p, q \in Procs :
        (/\ p # q
         /\ processor_queues[p].load = processor_queues[q].load
         /\ processor_queues[p].metrics.cpu_usage = processor_queues[q].metrics.cpu_usage
         /\ processor_queues[p].metrics.temperature
               = processor_queues[q].metrics.temperature
         /\ task_type \in processor_queues[p].specialization
         /\ task_type \notin processor_queues[q].specialization)
        => find_optimal_processor(processor_queues, Task(1, 1, 1, task_type)) # q

\* The pending count of processor p when the tick of m read its load, in a
\* tick that began with no mutation under way: the key is count * 100 / capacity.
StartLen(m, p) == (monitor[m].keys[p] * capacity[1]) \div (100 * capacity[2])

\* The processor with the greatest key, the last of them, and the one with
\* the least key, the first of them.
Highest(keys) ==
    CHOOSE p \in 1..Len(keys) :
        \A q \in 1..Len(keys) : keys[q] < keys[p] \/ (keys[q] = keys[p] /\ q <= p)

Lowest(keys) ==
    CHOOSE p \in 1..Len(keys) :
        \A q \in 1..Len(keys) : keys[q] > keys[p] \/ (keys[q] = keys[p] /\ q >= p)

\* C8: the boundary of rebalancing.  A tick that began with no mutation under
\* way and during which no other thread changed a queue ends with every
\* queue as long as it was when the greatest and the least load differed by
\* at most load_threshold; when they differed by more, it ends with half
\* (rounded down) of the pending tasks of the most loaded processor moved to
\* the least loaded one.  No tick, quiet or not, moves more than half of the
\* tasks the most loaded processor had at the decision (line 182).
RebalanceBoundary ==
    [][\A m \in Monitors :
          LET before == monitor[m]
              after == monitor'[m]
              most == Highest(before.keys)
              least == Lowest(before.keys)
              half == StartLen(m, most) \div 2
          IN
          /\ (before.pc \in {"check_least", "loop"} /\ after.pc = "sleep" /\ before.quiet) =>
                IF before.keys[most] - before.keys[least] <= load_threshold
                THEN /\ before.moved = 0
                     /\ processor_queues' = processor_queues
                     /\ \A p \in Procs :
                           Len(processor_queues[p].tasks) = StartLen(m, p)
                ELSE /\ before.moved = half
                     /\ Len(processor_queues'[most].tasks) = StartLen(m, most) - half
                     /\ Len(processor_queues'[least].tasks) = StartLen(m, least) + half
          /\ (before.pc \in {"loop", "get_load", "add"} \cup InAddTask) =>
                /\ before.moved <= before.pending \div 2
                /\ after.moved <= before.pending \div 2
      ]_vars

\* C8 witness: a tick that no other thread disturbed found a difference of
\* loads just above load_threshold (72.0, one task more with capacity 25/18),
\* has moved one task of the two or three the most loaded processor had, and
\* its loop is over.
QuietTickMovedHalfWitness ==
    \E m \in Monitors :
        /\ monitor[m].pc = "loop"
        /\ monitor[m].i >= monitor[m].tasks_to_move
        /\ monitor[m].quiet
        /\ monitor[m].keys[Highest(monitor[m].keys)]
              - monitor[m].keys[Lowest(monitor[m].keys)] = load_threshold + 2
        /\ monitor[m].pending \in {2, 3}
        /\ monitor[m].moved = 1

\* The processor's load and load_history agree with its pending tasks.
LoadConsistent(q) ==
    /\ ~q.lock =>
          /\ q.load = (Len(q.tasks) * 100 * capacity[2]) \div capacity[1]
          /\ q.load_history # << >> => q.load_history[Len(q.load_history)] = q.load
    /\ Len(q.load_history) <= HistoryLimit

\* C9: load consistency.  Whenever a processor's lock is free its load is
\* pending count x 100 / capacity and, once load_history is not empty, its
\* last entry is the load; load_history never has more than 100 entries, and
\* every step that changes it appends the new load, dropping the oldest entry
\* when it already had 100.
LoadConsistency ==
    [][\A p \in Procs :
          LET q == processor_queues[p]
              r == processor_queues'[p]
          IN
          /\ LoadConsistent(q)
          /\ LoadConsistent(q)'
          /\ r.load_history # q.load_history =>
                r.load_history =
                    Append(IF Len(q.load_history) < HistoryLimit
                           THEN q.load_history ELSE Tail(q.load_history),
                           r.load)
      ]_vars

\* C9 witness: a load_history of 100 entries has lost its oldest entries, its
\* processor's lock is free and its last entry is the load.
HistoryFullWitness ==
    \E p \in Procs :
        LET q == processor_queues[p] IN
        /\ ~q.lock
        /\ Len(q.load_history) = HistoryLimit
        /\ q.total_tasks_processed >= CompletedBefore + 2
        /\ q.load_history[1] # 100
        /\ q.load_history[HistoryLimit] = q.load

\* C10: metrics are recomputed on every queue mutation.  Whenever a
\* processor's lock is free after an admit, a withdraw or a resolve, its
\* cpu_usage is min(100, pending count x 20), its temperature 40 + cpu_usage/2
\* and its power_consumption cpu_usage x 2.
MetricsAreCurrent ==
    \A p \in Procs :
        LET q == processor_queues[p] IN
        (~q.lock /\ q.load_history # << >>) =>
            /\ q.metrics.cpu_usage = Min(100, Len(q.tasks) * 20)
            /\ q.metrics.temperature = 40 + q.metrics.cpu_usage \div 2
            /\ q.metrics.power_consumption = q.metrics.cpu_usage * 2

\* C11: starting the monitoring is idempotent.  However often
\* start_monitoring is called, at most one monitoring thread runs, and no two
\* ticks are in progress at the same time.
AtMostOneMonitoringThread ==
    /\ Cardinality({m \in Monitors : monitor[m].pc # "unstarted"}) <= 1
    /\ Cardinality({m \in Monitors : InTick(m)}) <= 1

\* C12: migration doubles no statistics counter.  The sum over the processors
\* of total_tasks_processed is at most the number of accepted submissions,
\* and the sum of total_execution_time is at most the sum of the accepted
\* tasks' execution_time (every execution_time is the one of ExecTimes).
CountersCountEachTaskOnce ==
    /\ SumSeq([p \in Procs |-> processor_queues[p].total_tasks_processed])
          <= Cardinality(accepted)
    /\ \A execution_time \in ExecTimes :
          SumSeq([p \in Procs |-> processor_queues[p].total_execution_time])
             <= Cardinality(accepted) * execution_time

\* What the last call of get_statistics by thread r returned agrees with the
\* balancer.
StatisticsAgree(r) ==
    LET f == reader[r]
        entries == f.result.processors
    IN
    (f.pc = "idle" /\ f.reads >= 1) =>
        /\ \A i \in 1..Len(entries) :
              entries[i].tasks_processed = 0 => entries[i].avg_execution_time = Zero
        /\ (f.quiet /\ version = f.base) =>
              /\ f.result.total_tasks = tasks_submitted
              /\ Len(entries) = Len(processor_queues)
              /\ \A i \in 1..Len(entries) :
                    LET q == processor_queues[i] IN
                    /\ entries[i].id = q.processor_id
                    /\ entries[i].specialization = q.specialization
                    /\ entries[i].tasks_processed = q.total_tasks_processed
                    /\ entries[i].successful_tasks = q.successful_tasks
                    /\ entries[i].avg_execution_time[1] * q.total_tasks_processed
                          = q.total_execution_time * entries[i].avg_execution_time[2]
                    /\ entries[i].current_load = q.load
                    /\ entries[i].temperature = q.metrics.temperature
                    /\ entries[i].power_consumption = q.metrics.power_consumption
        /\ (f.reads >= 2 /\ f.quiet /\ f.previous_quiet /\ f.base = f.previous_base) =>
              f.result = f.previous

\* C13: get_statistics is read-only and idempotent.  No step of a call
\* changes the queues, loads, load_history, metrics, counters or
\* tasks_submitted; a call during which nothing changed returns the fields as
\* they are, two such calls with no change between them return the same
\* entries and total_tasks, and avg_execution_time is 0 for every processor
\* with tasks_processed 0.
StatisticsReadOnlyAndIdempotent ==
    [][\A r \in Readers :
          /\ reader'[r] # reader[r] =>
                /\ processor_queues' = processor_queues
                /\ tasks_submitted' = tasks_submitted
                /\ threads' = threads
                /\ version' = version
          /\ StatisticsAgree(r)'
      ]_vars

\* C14: tasks_submitted counts the accepted submissions exactly.  When every
\* call of submit_task with a valid type has returned, tasks_submitted is the
\* number of the calls, also when they ran in different threads.
SubmissionsCountedExactly ==
    (\A s \in Submitters : submit[s].pc = "idle") => tasks_submitted = calls

\* A current_load, temperature and power_consumption that belong together:
\* those of a new processor, or those of one pending count.
Whole(entry) ==
    \/ entry.current_load = 0 /\ entry.temperature = 0 /\ entry.power_consumption = 0
    \/ LET pending == (entry.current_load * capacity[1]) \div (100 * capacity[2])
           cpu_usage == Min(100, pending * 20)
       IN  /\ entry.temperature = 40 + cpu_usage \div 2
           /\ entry.power_consumption = cpu_usage * 2

\* C15: no reader observes a processor in the middle of a mutation.  Every
\* entry a get_statistics call has read has a current_load, a temperature and
\* a power_consumption computed from the same pending count.
ReadersSeeWholeUpdates ==
    \A r \in Readers :
        /\ \A i \in 1..Len(reader[r].processors) : Whole(reader[r].processors[i])
        /\ \A i \in 1..Len(reader[r].result.processors) :
              Whole(reader[r].result.processors[i])

\* The threads inside a critical section of processor p: a submitting thread
\* or a monitoring thread in add_task, a monitoring thread in get_task, an
\* execution thread in _execute_task.
Holders(p) ==
    {<< "submit", s >> : s \in {s \in Submitters :
          submit[s].pc \in InAddTask /\ submit[s].target = p}}
    \cup {<< "monitor", m >> : m \in {m \in Monitors :
          \/ monitor[m].pc = "get_load" /\ monitor[m].most_loaded = p
          \/ monitor[m].pc \in InAddTask /\ monitor[m].least_loaded = p}}
    \cup {<< "execute", e >> : e \in {e \in executing : e.proc = p}}

\* The threads that wait for the lock of processor p.
Waiters(p) ==
    {<< "submit", s >> : s \in {s \in Submitters :
          submit[s].pc = "add" /\ submit[s].target = p}}
    \cup {<< "monitor", m >> : m \in {m \in Monitors :
          \/ /\ monitor[m].pc = "loop"
             /\ monitor[m].i < monitor[m].tasks_to_move
             /\ monitor[m].most_loaded = p
          \/ monitor[m].pc = "add" /\ monitor[m].least_loaded = p}}
    \cup {<< "execute", th >> : th \in {th \in BagToSet(threads) : th.proc = p}}

\* The step a thread that waits for a lock takes when it gets the lock.
Acquire(w) ==
    \/ w[1] = "submit" /\ SubmitAddAppend(w[2])
    \/ w[1] = "monitor" /\ (GetTaskPop(w[2]) \/ GetTaskNone(w[2]) \/ MigrateAddAppend(w[2]))
    \/ w[1] = "execute" /\ (ExecuteTaskStale(w[2])
                              \/ ExecuteTaskRemove(w[2]))

\* The next step of a thread inside a critical section.
Proceed(h) ==
    \/ h[1] = "submit" /\ (\/ SubmitAddLoad(h[2]) \/ SubmitAddCpu(h[2])
                            \/ SubmitAddTemperature(h[2]) \/ SubmitAddPower(h[2])
                            \/ SubmitAddCount(h[2]) \/ SubmitAddFinish(h[2]))
    \/ h[1] = "monitor" /\ (\/ GetTaskFinish(h[2]) \/ MigrateAddLoad(h[2])
                             \/ MigrateAddCpu(h[2]) \/ MigrateAddTemperature(h[2])
                             \/ MigrateAddPower(h[2]) \/ MigrateAddCount(h[2])
                             \/ MigrateAddFinish(h[2]))
    \/ h[1] = "execute" /\ (\/ \E success \in BOOLEAN : ExecuteTaskCount(h[2], success)
                             \/ ExecuteTaskLoad(h[2]) \/ ExecuteTaskCpu(h[2])
                             \/ ExecuteTaskTemperature(h[2]) \/ ExecuteTaskFinish(h[2]))

\* g and h are the same thread, at one place of its code or at two.
SameThread(g, h) ==
    /\ g[1] = h[1]
    /\ IF g[1] = "execute" THEN g[2].task = h[2].task /\ g[2].proc = h[2].proc
       ELSE g[2] = h[2]

\* C16: mutations of one queue are mutually exclusive, and operations on
\* different queues never block each other.  At most one thread is inside a
\* critical section of a processor, and exactly then its lock is held; a step
\* that writes a field of a processor is taken by the thread that holds its
\* lock; a thread inside a critical section can always take its next step, and
\* a thread that waits for a lock can take it whenever that lock is free,
\* whatever the other locks are.
MutationsAreExclusive ==
    /\ [](\A p \in Procs :
            /\ Cardinality(Holders(p)) <= 1
            /\ processor_queues[p].lock <=> Holders(p) # {}
            /\ \A h \in Holders(p) : ENABLED Proceed(h)
            /\ \A w \in Waiters(p) : ~processor_queues[p].lock <=> ENABLED Acquire(w))
    /\ [][\A p \in Procs :
            processor_queues'[p] # processor_queues[p] =>
                /\ processor_queues[p].lock \/ processor_queues'[p].lock
                /\ Holders(p) \cup Holders(p)' # {}
                /\ processor_queues[p].lock =>
                      \A h \in Holders(p)' : \E g \in Holders(p) : SameThread(g, h)
         ]_vars

\* C16 witness: the locks of two processors are held at the same time, and a
\* thread waits for one of them.
TwoLocksHeldWitness ==
    \E p \in Procs, q \in Procs :
        /\ p # q
        /\ processor_queues[p].lock /\ processor_queues[q].lock
        /\ Waiters(p) # {}

\* later is earlier with one task taken out, the others in their order.
OneRemoved(earlier, later) ==
    \E i \in 1..Len(earlier) :
        later = SubSeq(earlier, 1, i - 1) \o SubSeq(earlier, i + 1, Len(earlier))

\* C17: get_task is FIFO and total.  A queue's pending tasks stand in the
\* order of their admission: a step appends one task at the end or takes one
\* out and keeps the order of the others.  get_task on a non-empty queue
\* returns the first of them, the one admitted earliest, and leaves the others
\* as they were; get_task on an empty queue returns None and changes no field
\* of any processor.
GetTaskIsFifoAndTotal ==
    [][/\ \A p \in Procs :
             LET earlier == processor_queues[p].tasks
                 later == processor_queues'[p].tasks
             IN  \/ later = earlier
                 \/ \E task \in {later[i] : i \in 1..Len(later)} :
                       later = Append(earlier, task)
                 \/ OneRemoved(earlier, later)
       /\ \A m \in Monitors :
             LET p == monitor[m].most_loaded
                 called == /\ monitor[m].pc = "loop"
                           /\ \/ monitor'[m].pc = "get_load"
                              \/ monitor'[m].pc = "loop" /\ monitor'[m].i # monitor[m].i
             IN  /\ (called /\ processor_queues[p].tasks # << >>) =>
                       /\ monitor'[m].pc = "get_load"
                       /\ monitor'[m].task = Head(processor_queues[p].tasks)
                       /\ processor_queues'[p].tasks = Tail(processor_queues[p].tasks)
                       /\ \A q \in Procs \ {p} : processor_queues'[q] = processor_queues[q]
                 /\ (called /\ processor_queues[p].tasks = << >>) =>
                       /\ monitor'[m].pc = "loop"
                       /\ monitor'[m].task = None
                       /\ processor_queues' = processor_queues
      ]_vars

\* C17 witness: get_task has returned the first of the pending tasks and left
\* another one.
GetTaskFromLongQueueWitness ==
    \E m \in Monitors :
        /\ monitor[m].pc = "get_load"
        /\ monitor[m].task # None
        /\ Len(processor_queues[monitor[m].most_loaded].tasks) >= 1
        /\ ~Contains(processor_queues[monitor[m].most_loaded].tasks, monitor[m].task)

\* The execution threads that have ended at line 74 with their task not in
\* the queue, when no submit_task call is under way: the threads started (one
\* per admission, one per migration) less those asleep and those that found
\* their task.
StaleWakes ==
    Cardinality(accepted) + migrations - BagCardinality(threads)
        - SumSeq([id \in DOMAIN resolutions |-> Len(resolutions[id])])

\* C18: a stale resolve is a no-op.  When an execution thread started on a
\* processor ends its sleep and its task is not among the pending tasks of
\* that processor, the step changes no field of that processor or of any
\* other, resolves nothing and leaves tasks_submitted.
StaleResolveIsNoOp ==
    [][\A th \in BagToSet(threads) :
          LET tasks == processor_queues[th.proc].tasks IN
          (/\ CopiesIn(th, threads') < CopiesIn(th, threads)
           /\ \A i \in 1..Len(tasks) : tasks[i] # th.task) =>
              /\ processor_queues' = processor_queues
              /\ resolutions' = resolutions
              /\ executing' = executing
              /\ tasks_submitted' = tasks_submitted
      ]_vars

\* C18 witness: an execution thread has ended without finding its task, which
\* had been migrated to another processor.
StaleWakeHappenedWitness ==
    /\ \A s \in Submitters : submit[s].pc = "idle"
    /\ migrations >= 1
    /\ StaleWakes >= 1

\* C19: every tick of the monitoring thread ends and the thread sleeps again,
\* whatever submit_task calls and execution threads run beside it.  A thread
\* that is about to take a lock (a submitting thread, an execution thread, the
\* monitoring thread) can take it, or a thread inside the critical section
\* can take its next step: no thread holds a lock while it waits for one.  A
\* monitoring thread inside a tick can take a step or waits in this way.
\* Under weak fairness a monitoring thread of a non-empty pool, once started,
\* is again and again in time.sleep (every tick that has begun ends there)
\* and again and again in a tick.
TicksTerminateAndRecur ==
    /\ [](\A p \in Procs : \A w \in Waiters(p) :
            \/ ENABLED Acquire(w)
            \/ \E h \in Holders(p) : ENABLED Proceed(h))
    /\ [](\A m \in Monitors :
            InTick(m) =>
                \/ ENABLED MonitorStep(m)
                \/ \E p \in Procs :
                      /\ << "monitor", m >> \in Waiters(p)
                      /\ \E h \in Holders(p) : ENABLED Proceed(h))
    /\ \A m \in Monitors :
          /\ []<>(monitor[m].pc \in {"unstarted", "sleep"})
          /\ []<>(monitor[m].pc = "unstarted" \/ InTick(m))

\* C19 witness: in a tick, the monitoring thread has taken a task from the
\* most loaded processor and waits for the lock of the least loaded one, which
\* another thread holds.
TickWaitsForLockWitness ==
    \E m \in Monitors :
        /\ monitor[m].pc = "add"
        /\ monitor[m].least_loaded # monitor[m].most_loaded
        /\ processor_queues[monitor[m].least_loaded].lock
        /\ ~processor_queues[monitor[m].most_loaded].lock

\* C20: rebalancing does not overshoot.  When the loop of a tick that moved
\* tasks is over and no other thread changed a queue during the tick, the
\* processor that was the least loaded holds no more pending tasks than the
\* one that was the most loaded.
RebalancingDoesNotOvershoot ==
    \A m \in Monitors :
        (/\ monitor[m].pc = "loop"
         /\ monitor[m].i >= monitor[m].tasks_to_move
         /\ monitor[m].quiet
         /\ monitor[m].moved >= 1) =>
            Len(processor_queues[monitor[m].least_loaded].tasks)
                <= Len(processor_queues[monitor[m].most_loaded].tasks)
====
